---- MODULE Spec2Model ----
(***************************************************************************)
(* Model of docs/check.py: the alert performance checker.                  *)
(*                                                                         *)
(* One run of the script reads logs/track.csv, walks the sorted set of     *)
(* ticker names, fetches one quote per ticker through fetch_stock_price    *)
(* (which paces the requests), prints one row per ticker and a summary.    *)
(*                                                                         *)
(* Numbers.  Prices are integers.  The alert prices of the model divide    *)
(* 100 * (x - alert) for every price x, so the percentage                   *)
(* ((x - alert) / alert) * 100 is an integer and is computed exactly; the  *)
(* rounding of Python floats is not modelled.                              *)
(*                                                                         *)
(* Inputs.  Every CSV row has both cells as strings (a file whose rows     *)
(* have as many fields as the header).  The display columns (Skip Reason,  *)
(* Incorporated, Located, Filed Date/Time) are carried to the output       *)
(* untouched by the code and are left out.                                 *)
(*                                                                         *)
(* Python's None is the record None below; Some(v) is a float v.           *)
(***************************************************************************)
EXTENDS Integers, Sequences, FiniteSets, TLC

VARIABLES
    api_key,        \* FINNHUB_API_KEY as loaded from .env (module level)
    csv,            \* logs/track.csv: whether it exists, and its rows
    pc,             \* "start", "loop", "done", "exit1", "crashed"
    exception,      \* the uncaught exception that ended the run, "" if none
    error_msg,      \* the ERROR line printed before sys.exit(1), "" if none
    header,         \* <<n>> once "Alerts (n)" and the table header are printed
    tickers,        \* sorted(tickers), the list the for loop walks
    idx,            \* number of loop iterations finished
    total_move, winners, count, request_count, big_movers, na_tickers,
    quote,          \* main's locals current, high, low after line 117
    rows,           \* the table rows printed so far (line 163)
    summary,        \* <<s>> once the summary lines are printed (165-169)
    fetch_calls,    \* calls of fetch_stock_price in this run
    net_requests,   \* calls of urllib.request.urlopen in this run
    delay_sleeps,   \* calls of time.sleep(REQUEST_DELAY + jitter)
    batch_sleeps,   \* calls of time.sleep(BATCH_DELAY)
    fetch_failures, \* calls of fetch_stock_price that returned current = None
    run,            \* number of the current run of the script (from 1)
    prev_rows,      \* the table rows the previous run printed
    answer,         \* what the last call of fetch_stock_price met (lines 33-56)
    peak_store      \* the peaks the script has written to disk, as
                    \* [ticker, peak] entries: it opens no file for writing

vars == <<api_key, csv, pc, exception, error_msg, header, tickers, idx,
          total_move, winners, count, request_count, big_movers, na_tickers,
          quote, answer, rows, summary, fetch_calls, net_requests, delay_sleeps,
          batch_sleeps, fetch_failures, run, prev_rows,
                   peak_store>>

---------------------------------------------------------------------------
(* Bounds of the model *)

MaxRows == 2        \* rows in track.csv
MaxRuns == 2        \* successive runs of the script over the same files
MaxFetches == 105   \* calls of fetch_stock_price in the pacing specification

(* Program constants *)

MAX_REQUESTS_PER_BATCH == 50
BIG_MOVER_THRESHOLD == 10

---------------------------------------------------------------------------
(* Values *)

None == [some |-> FALSE, val |-> 0]
Some(v) == [some |-> TRUE, val |-> v]

\* Python truthiness of a float-or-None: None and 0.0 are false.
Truthy(x) == x.some /\ x.val # 0

Max(a, b) == IF a >= b THEN a ELSE b
Min(a, b) == IF a <= b THEN a ELSE b
Abs(a) == IF a >= 0 THEN a ELSE 0 - a

\* The contents of the cells of track.csv.
TickerCells == {"AAA", "BBB", " AAA", "Unknown", ""}
PriceCells == {"10", "0", "-10", "abc"}
CsvRows == [Ticker : TickerCells, Price : PriceCells]
CsvContents == UNION {[1..n -> CsvRows] : n \in 0..MaxRows}
CsvFiles ==
    {[exists |-> FALSE, rows |-> <<>>]}
    \cup {[exists |-> TRUE, rows |-> f] : f \in CsvContents}

\* The contents of .env: no FINNHUB_API_KEY line, an empty value, a key.
KeyValues == {"None", "", "k3y"}

\* str.strip()
Strip(s) == IF s = " AAA" THEN "AAA" ELSE s

\* float(s) of a Price cell: ok = FALSE is ValueError.
ParseFloat(s) ==
    CASE s = "10" -> [ok |-> TRUE, val |-> 10]
      [] s = "0" -> [ok |-> TRUE, val |-> 0]
      [] s = "-10" -> [ok |-> TRUE, val |-> 0 - 10]
      [] OTHER -> [ok |-> FALSE, val |-> 0]

\* The answers of the quote API: a failure (network error, HTTP error,
\* timeout, unparsable body), or a JSON object with fields c, h, l.
\* c = 0 stands for a c that is missing, null or zero; h and l may be
\* missing.
CurrentVals == {0, 9, 10, 11, 12}
FieldVals == {None, Some(9), Some(13)}
Responses ==
    {[error |-> TRUE, c |-> 0, h |-> None, l |-> None]}
    \cup {[error |-> FALSE, c |-> c, h |-> h, l |-> l] :
            c \in CurrentVals, h \in FieldVals, l \in FieldVals}

---------------------------------------------------------------------------
(* fetch_stock_price *)

\* `not FINNHUB_API_KEY`: None and the empty string are false.
KeyMissingNever(key) == FALSE
KeyMissing(key) == key = "None" \/ key = ""

\* The batch cooldown condition.
BatchCooldownDueAtZero(rc) == rc % MAX_REQUESTS_PER_BATCH = 0
BatchCooldownDue(rc) == rc > 0 /\ rc % MAX_REQUESTS_PER_BATCH = 0

\* The counter returned once the request has been attempted.
SameRequestCount(rc) == rc
NextRequestCount(rc) == rc + 1

\* `'c' in data and data['c']` on the decoded answer.
HasCurrentAnyValue(resp) == ~resp.error
HasCurrent(resp) == ~resp.error /\ resp.c # 0

\* data.get(k, current) of an optional field.
FieldOr(field, current) == IF field.some THEN field ELSE Some(current)

\* What the request met: an exception (line 53), a payload whose c is
\* missing, null or zero (line 48 false), or a quote.
Answer(resp) ==
    IF resp.error THEN "error"
    ELSE IF resp.c = 0 THEN "no_current"
    ELSE "quote"

\* The result of one call, with what the call did on the way: the two
\* sleeps and the network request.
fetch_stock_price(key, resp, rc) ==
    IF KeyMissing(key)
    THEN [current |-> None, high |-> None, low |-> None,
          request_count |-> rc,
          batch_slept |-> FALSE, delay_slept |-> FALSE, requested |-> FALSE,
          answer |-> "no_key"]
    ELSE [current |-> IF HasCurrent(resp) THEN Some(resp.c) ELSE None,
          high |-> IF HasCurrent(resp) THEN FieldOr(resp.h, resp.c) ELSE None,
          low |-> IF HasCurrent(resp) THEN FieldOr(resp.l, resp.c) ELSE None,
          request_count |-> NextRequestCount(rc),
          batch_slept |-> BatchCooldownDue(rc),
          delay_slept |-> TRUE, requested |-> TRUE,
          answer |-> Answer(resp)]

\* What a call of fetch_stock_price leaves behind: the locals of line 117
\* and the record of its sleeps and of its request.
Fetched(f) ==
    /\ request_count' = f.request_count
    /\ quote' = [current |-> f.current, high |-> f.high, low |-> f.low]
    /\ answer' = f.answer
    /\ fetch_calls' = fetch_calls + 1
    /\ net_requests' = net_requests + (IF f.requested THEN 1 ELSE 0)
    /\ delay_sleeps' = delay_sleeps + (IF f.delay_slept THEN 1 ELSE 0)
    /\ batch_sleeps' = batch_sleeps + (IF f.batch_slept THEN 1 ELSE 0)
    /\ fetch_failures' = fetch_failures + (IF f.current.some THEN 0 ELSE 1)

---------------------------------------------------------------------------
(* main *)

\* A name kept by the loop of lines 72-75.
ValidTickerNameNotEmpty(t) == t # ""
ValidTickerName(t) == t # "" /\ t # "Unknown"

\* The set built by lines 71-75.
TickerSet(csvrows) ==
    {t \in {Strip(csvrows[i].Ticker) : i \in DOMAIN csvrows} : ValidTickerName(t)}

\* sorted(tickers): the names in the order of Python's string comparison.
SortedNames == <<"", "AAA", "BBB", "Unknown">>
SortedDescending(S) ==
    SelectSeq(<<"Unknown", "BBB", "AAA", "">>, LAMBDA t : t \in S)
Sorted(S) == SelectSeq(SortedNames, LAMBDA t : t \in S)

\* The rows of line 94: the comparison is with the unstripped cell.
TickerRows(csvrows, ticker) == SelectSeq(csvrows, LAMBDA r : r.Ticker = ticker)

\* ((x - alert_price) / alert_price) * 100, alert_price # 0.
MovePct(x, alert_price) == ((x - alert_price) * 100) \div alert_price

\* Line 122.
PeakPrice(current, high, low, alert_price) ==
    IF current > alert_price THEN Max(high, alert_price) ELSE Min(low, alert_price)

\* Lines 128-129 and 137-138: count += 1 in either branch.
CountStepBelowOnly(current, alert_price) ==
    IF current < alert_price THEN 1 ELSE 0
CountStep(current, alert_price) ==
    IF current > alert_price \/ current < alert_price THEN 1 ELSE 0

\* Lines 131-136: every band adds one.
WinnerStep(move_pct) ==
    IF move_pct > 50 THEN 1
    ELSE IF move_pct > 20 THEN 1
    ELSE IF move_pct > 0 THEN 1
    ELSE 0

\* Line 144.
IsBigMoverStrict(move_pct) == Abs(move_pct) > BIG_MOVER_THRESHOLD
IsBigMover(move_pct) == Abs(move_pct) >= BIG_MOVER_THRESHOLD

\* Line 166; the quotient is kept as a fraction.
AvgMoveUnguarded(total, n) == [num |-> total, den |-> n]
AvgMove(total, n) ==
    IF n > 0 THEN [num |-> total, den |-> n] ELSE [num |-> 0, den |-> 1]

ExitCode == CASE pc = "done" -> 0
              [] pc = "exit1" -> 1
              [] pc = "crashed" -> 1
              [] OTHER -> 0 - 1

Init ==
    /\ api_key \in KeyValues
    /\ csv \in CsvFiles
    /\ pc = "start"
    /\ exception = ""
    /\ error_msg = ""
    /\ header = <<>>
    /\ tickers = <<>>
    /\ idx = 0
    /\ total_move = 0
    /\ winners = 0
    /\ count = 0
    /\ request_count = 0
    /\ big_movers = <<>>
    /\ na_tickers = <<>>
    /\ quote = [current |-> None, high |-> None, low |-> None]
    /\ rows = <<>>
    /\ summary = <<>>
    /\ fetch_calls = 0
    /\ net_requests = 0
    /\ delay_sleeps = 0
    /\ batch_sleeps = 0
    /\ fetch_failures = 0
    /\ run = 1
    /\ prev_rows = <<>>
    /\ answer = "none"
    /\ peak_store = {}

\* sys.exit(1) after an ERROR line: nothing else changes.
ExitWith(msg) ==
    /\ pc' = "exit1"
    /\ error_msg' = msg
    /\ UNCHANGED <<api_key, csv, exception, header, tickers, idx, total_move,
                   winners, count, request_count, big_movers, na_tickers,
                   quote, answer, rows, summary, fetch_calls, net_requests,
                   delay_sleeps, batch_sleeps, fetch_failures, run, prev_rows,
                   peak_store>>

\* Lines 59-91: read the file, collect the names, print the header.
Load ==
    /\ pc = "start"
    /\ \/ /\ ~csv.exists
          /\ ExitWith("ERROR: No track.csv found.")
       \/ /\ csv.exists
          /\ csv.rows = <<>>
          /\ ExitWith("ERROR: track.csv is empty")
       \/ /\ csv.exists
          /\ csv.rows # <<>>
          /\ TickerSet(csv.rows) = {}
          /\ ExitWith("ERROR: No valid tickers in CSV")
       \/ /\ csv.exists
          /\ csv.rows # <<>>
          /\ TickerSet(csv.rows) # {}
          /\ pc' = "loop"
          /\ header' = <<Cardinality(TickerSet(csv.rows))>>
          /\ tickers' = Sorted(TickerSet(csv.rows))
          /\ idx' = 0
          /\ total_move' = 0
          /\ winners' = 0
          /\ count' = 0
          /\ request_count' = 0
          /\ big_movers' = <<>>
          /\ na_tickers' = <<>>
          /\ UNCHANGED <<api_key, csv, exception, error_msg, quote, answer, rows,
                         summary, fetch_calls, net_requests, delay_sleeps,
                         batch_sleeps, fetch_failures, run, prev_rows,
                   peak_store>>

\* `continue` at line 96 or 101.
Continue ==
    /\ idx' = idx + 1
    /\ UNCHANGED <<api_key, csv, pc, exception, error_msg, header, tickers,
                   total_move, winners, count, request_count, big_movers,
                   na_tickers, quote, answer, rows, summary, fetch_calls,
                   net_requests, delay_sleeps, batch_sleeps, fetch_failures,
                   run, prev_rows,
                   peak_store>>

\* Lines 117-163 for one ticker whose price parsed, given the fetch result.
Evaluate(ticker, alert_price, f) ==
    /\ Fetched(f)
    /\ IF Truthy(f.current)
       THEN IF alert_price = 0
            THEN \* line 124 divides by alert_price
                 /\ pc' = "crashed"
                 /\ exception' = "ZeroDivisionError"
                 /\ UNCHANGED <<idx, total_move, winners, count, big_movers,
                                na_tickers, rows>>
            ELSE LET current == f.current.val
                     peak_price ==
                         PeakPrice(current, f.high.val, f.low.val, alert_price)
                     peak_move_pct == MovePct(peak_price, alert_price)
                     move_pct == MovePct(current, alert_price)
                 IN  /\ count' = count + CountStep(current, alert_price)
                     /\ total_move' =
                            IF current > alert_price \/ current < alert_price
                            THEN total_move + move_pct ELSE total_move
                     /\ winners' = IF current > alert_price
                                   THEN winners + WinnerStep(move_pct)
                                   ELSE winners
                     /\ big_movers' =
                            IF IsBigMover(move_pct)
                            THEN Append(big_movers,
                                        [ticker |-> ticker,
                                         alert_price |-> alert_price,
                                         current_price |-> current,
                                         peak_price |-> peak_price,
                                         move_pct |-> move_pct,
                                         peak_move_pct |-> peak_move_pct])
                            ELSE big_movers
                     /\ rows' = Append(rows,
                                       [ticker |-> ticker,
                                        alert_price |-> alert_price,
                                        current |-> Some(current),
                                        peak |-> Some(peak_price),
                                        move |-> Some(move_pct)])
                     /\ idx' = idx + 1
                     /\ UNCHANGED <<pc, exception, na_tickers>>
       ELSE /\ na_tickers' = Append(na_tickers, ticker)
            /\ rows' = Append(rows,
                              [ticker |-> ticker,
                               alert_price |-> alert_price,
                               current |-> None,
                               peak |-> None,
                               move |-> None])
            /\ idx' = idx + 1
            /\ UNCHANGED <<pc, exception, total_move, winners, count, big_movers>>
    /\ UNCHANGED <<api_key, csv, error_msg, header, tickers, summary, run,
                   prev_rows,
                   peak_store>>

\* One iteration of the loop of lines 93-163.
ProcessTicker ==
    /\ pc = "loop"
    /\ idx < Len(tickers)
    /\ LET ticker == tickers[idx + 1]
           ticker_rows == TickerRows(csv.rows, ticker)
       IN  IF ticker_rows = <<>>
           THEN Continue
           ELSE IF ~ParseFloat(ticker_rows[1].Price).ok
                THEN Continue
                ELSE \E resp \in Responses :
                        Evaluate(ticker, ParseFloat(ticker_rows[1].Price).val,
                                 fetch_stock_price(api_key, resp, request_count))

\* Lines 165-192: the summary and the two sub-reports, which print
\* big_movers and na_tickers (in display order) without changing them.
Summary ==
    /\ pc = "loop"
    /\ idx = Len(tickers)
    /\ summary' = <<[avg_move |-> AvgMove(total_move, count),
                     winners |-> winners,
                     count |-> count,
                     na_count |-> Len(na_tickers)]>>
    /\ pc' = "done"
    /\ UNCHANGED <<api_key, csv, exception, error_msg, header, tickers, idx,
                   total_move, winners, count, request_count, big_movers,
                   na_tickers, quote, answer, rows, fetch_calls, net_requests,
                   delay_sleeps, batch_sleeps, fetch_failures, run, prev_rows,
                   peak_store>>

Next == Load \/ ProcessTicker \/ Summary

\* One run of the script.
Spec == Init /\ [][Next]_vars

\* The script is run again over the same track.csv and .env.  Nothing of a
\* run outlives the process; prev_rows remembers what the run had printed.
Rerun ==
    /\ pc = "done"
    /\ run < MaxRuns
    /\ run' = run + 1
    /\ prev_rows' = rows
    /\ pc' = "start"
    /\ exception' = ""
    /\ error_msg' = ""
    /\ header' = <<>>
    /\ tickers' = <<>>
    /\ idx' = 0
    /\ total_move' = 0
    /\ winners' = 0
    /\ count' = 0
    /\ request_count' = 0
    /\ big_movers' = <<>>
    /\ na_tickers' = <<>>
    /\ quote' = [current |-> None, high |-> None, low |-> None]
    /\ answer' = "none"
    /\ rows' = <<>>
    /\ summary' = <<>>
    /\ fetch_calls' = 0
    /\ net_requests' = 0
    /\ delay_sleeps' = 0
    /\ batch_sleeps' = 0
    /\ fetch_failures' = 0
    /\ UNCHANGED <<api_key, csv, peak_store>>

NextRuns == Load \/ ProcessTicker \/ Summary \/ Rerun

\* Successive runs of the script.
SpecRuns == Init /\ [][NextRuns]_vars

\* The request counter along the calls of line 117, for a ticker list of
\* any length: the report state of the loop is left where it is.
InitPacing ==
    /\ api_key \in KeyValues
    /\ csv = [exists |-> TRUE, rows |-> <<>>]
    /\ pc = "loop"
    /\ exception = ""
    /\ error_msg = ""
    /\ header = <<>>
    /\ tickers = <<>>
    /\ idx = 0
    /\ total_move = 0
    /\ winners = 0
    /\ count = 0
    /\ request_count = 0
    /\ big_movers = <<>>
    /\ na_tickers = <<>>
    /\ quote = [current |-> None, high |-> None, low |-> None]
    /\ rows = <<>>
    /\ summary = <<>>
    /\ fetch_calls = 0
    /\ net_requests = 0
    /\ delay_sleeps = 0
    /\ batch_sleeps = 0
    /\ fetch_failures = 0
    /\ run = 1
    /\ prev_rows = <<>>
    /\ answer = "none"
    /\ peak_store = {}

PacedFetch ==
    /\ pc = "loop"
    /\ fetch_calls < MaxFetches
    /\ \E resp \in Responses :
          Fetched(fetch_stock_price(api_key, resp, request_count))
    /\ UNCHANGED <<api_key, csv, pc, exception, error_msg, header, tickers,
                   idx, total_move, winners, count, big_movers, na_tickers,
                   rows, summary, run, prev_rows,
                   peak_store>>

NextPacing == PacedFetch

SpecPacing == InitPacing /\ [][NextPacing]_vars

---------------------------------------------------------------------------
(* Claims *)

\* The peak a ticker had before this run: the peak the previous run
\* reported for it, the alert price when none was reported.
PriorPeak(ticker, alert_price) ==
    IF \E i \in DOMAIN prev_rows :
          prev_rows[i].ticker = ticker /\ prev_rows[i].peak.some
    THEN (CHOOSE r \in {prev_rows[i] : i \in DOMAIN prev_rows} :
             r.ticker = ticker /\ r.peak.some).peak.val
    ELSE alert_price

\* The tickers of the loop whose first row has a price that float() accepts.
PricedTickers ==
    {t \in TickerSet(csv.rows) :
        /\ TickerRows(csv.rows, t) # <<>>
        /\ ParseFloat(TickerRows(csv.rows, t)[1].Price).ok}

\* Nothing of the report has been produced and no quote was asked for.
NothingProduced ==
    /\ header = <<>>
    /\ rows = <<>>
    /\ summary = <<>>
    /\ fetch_calls = 0
    /\ net_requests = 0

\* C1, as claimed: after R requests the number of batch cooldown pauses is
\* floor(R / N), N = MAX_REQUESTS_PER_BATCH, whatever the outcomes were.
C1_PausesFloorOfR ==
    batch_sleeps = net_requests \div MAX_REQUESTS_PER_BATCH

\* C1, amended: after R >= 1 requests the number of batch cooldown pauses
\* is floor((R - 1) / N), whatever the outcomes were: the pause comes
\* before the request that finds N, 2N, 3N, ... requests already counted,
\* so a run of exactly N requests has none.
C1_PausesFloorOfRMinusOne ==
    batch_sleeps =
        IF net_requests = 0 THEN 0
        ELSE (net_requests - 1) \div MAX_REQUESTS_PER_BATCH

\* C1 witness: more than 2N requests, some failed and some not, two pauses.
C1_Witness ==
    /\ net_requests > 2 * MAX_REQUESTS_PER_BATCH
    /\ batch_sleeps = 2
    /\ fetch_failures > 0
    /\ fetch_failures < net_requests

\* C2, as claimed: every call of fetch_stock_price, the calls without an
\* API key included, adds one to the request counter, so the counter
\* equals the number of calls made.
C2_EveryCallConsumesSlot == request_count = fetch_calls

\* C2, amended: a call made with an API key returns the counter plus one
\* whatever its outcome, a call made without one returns the counter
\* unchanged; the counter never decreases, and the cooldown is taken
\* exactly when a key is set and the counter is a positive multiple of N.
C2_CounterStep ==
    [][fetch_calls' = fetch_calls + 1 =>
          /\ request_count' =
                request_count + (IF api_key \in {"None", ""} THEN 0 ELSE 1)
          /\ request_count' >= request_count
          /\ (batch_sleeps' = batch_sleeps + 1) <=>
                (/\ api_key \notin {"None", ""}
                 /\ request_count > 0
                 /\ request_count % MAX_REQUESTS_PER_BATCH = 0)
          /\ batch_sleeps' \in {batch_sleeps, batch_sleeps + 1}]_vars

\* C2 witness: with a key, more than N calls with failures and a quote
\* among them, every one counted.
C2_Witness ==
    /\ api_key = "k3y"
    /\ fetch_calls > MAX_REQUESTS_PER_BATCH
    /\ request_count = fetch_calls
    /\ fetch_failures > 0
    /\ quote.current.some

C4_PeakRatchet ==
    \A i \in DOMAIN prev_rows : \A j \in DOMAIN rows :
        (/\ prev_rows[i].ticker = rows[j].ticker
         /\ prev_rows[i].peak.some
         /\ rows[j].peak.some) =>
            /\ prev_rows[i].peak.val > prev_rows[i].alert_price =>
                  rows[j].peak.val >= prev_rows[i].peak.val
            /\ prev_rows[i].peak.val < prev_rows[i].alert_price =>
                  rows[j].peak.val <= prev_rows[i].peak.val

\* C5: a ticker whose fetch failed in this run is reported without current
\* price and move but with the peak of the prior run, unchanged, and at the
\* end of the run it is counted (in winners when that peak is above the
\* alert price).
C5_FailedFetchKeepsPeak ==
    /\ \A j \in DOMAIN rows : ~rows[j].current.some =>
          /\ ~rows[j].move.some
          /\ \A i \in DOMAIN prev_rows :
                (prev_rows[i].ticker = rows[j].ticker /\ prev_rows[i].peak.some)
                    => rows[j].peak = prev_rows[i].peak
    /\ pc = "done" =>
          /\ winners >= Cardinality({j \in DOMAIN rows :
                /\ ~rows[j].current.some
                /\ PriorPeak(rows[j].ticker, rows[j].alert_price)
                       > rows[j].alert_price})
          /\ count >= Cardinality({j \in DOMAIN rows :
                /\ ~rows[j].current.some
                /\ PriorPeak(rows[j].ticker, rows[j].alert_price)
                       # rows[j].alert_price})

\* C6: a ticker whose alert price is zero or negative is in no row, in no
\* aggregate and in no list, and nothing is divided by its alert price.
C6_NonPositiveAlertRejected ==
    /\ exception # "ZeroDivisionError"
    /\ \A i \in DOMAIN rows : rows[i].alert_price > 0
    /\ \A i \in DOMAIN big_movers : big_movers[i].alert_price > 0
    /\ \A i \in DOMAIN na_tickers : \A j \in DOMAIN rows :
          rows[j].ticker = na_tickers[i] => rows[j].alert_price > 0

\* C7: once the header is printed no exception ends the run: the run is in
\* the loop or has printed its summary.
C7_NoExceptionEndsRun ==
    header # <<>> => (pc \in {"loop", "done"} /\ exception = "")

\* C8, as claimed: when the file is missing, empty or without any row that
\* has a name other than "" and "Unknown" and a parseable positive price,
\* the run exits non-zero and nothing is produced.
C8_InputErrorByNameAndPrice ==
    (/\ pc # "start"
     /\ \A i \in DOMAIN csv.rows :
           \/ Strip(csv.rows[i].Ticker) \in {"", "Unknown"}
           \/ ~ParseFloat(csv.rows[i].Price).ok
           \/ ParseFloat(csv.rows[i].Price).val <= 0)
        => (pc = "exit1" /\ ExitCode # 0 /\ error_msg # "" /\ NothingProduced)

\* C8, amended: when the file is missing, empty or without any row whose
\* stripped name is other than "" and "Unknown", the run exits non-zero
\* and nothing is produced; a row's price plays no part.
C8_InputErrorByName ==
    (/\ pc # "start"
     /\ \A i \in DOMAIN csv.rows :
           Strip(csv.rows[i].Ticker) \in {"", "Unknown"})
        => (pc = "exit1" /\ ExitCode # 0 /\ error_msg # "" /\ NothingProduced)

\* C8 witness: the run has exited on a file of two rows, none with a name.
C8_Witness ==
    /\ pc = "exit1"
    /\ csv.exists
    /\ Len(csv.rows) = 2
    /\ csv.rows[1].Ticker = "Unknown"
    /\ error_msg = "ERROR: No valid tickers in CSV"

\* C9: after a quote with current above the alert price the peak printed
\* is the maximum of prior peak, daily high and current, so at least
\* current; with current below, the minimum of prior peak, daily low and
\* current, so at most current.
C9_PeakIsRunningExtreme ==
    (pc # "crashed" /\ rows # <<>> /\ Truthy(quote.current)) =>
        LET r == rows[Len(rows)]
            prior == PriorPeak(r.ticker, r.alert_price)
        IN  /\ quote.current.val > r.alert_price =>
                  /\ r.peak.val =
                        Max(prior, Max(quote.high.val, quote.current.val))
                  /\ r.peak.val >= quote.current.val
            /\ quote.current.val < r.alert_price =>
                  /\ r.peak.val =
                        Min(prior, Min(quote.low.val, quote.current.val))
                  /\ r.peak.val <= quote.current.val

\* C10: after a fetch whose current is absent or equal to the alert price
\* the peak printed for the ticker is the peak it had before, whatever the
\* daily high and low.
C10_PeakUnchangedAtAlert ==
    (pc # "crashed" /\ rows # <<>>) =>
        LET r == rows[Len(rows)]
        IN  (~quote.current.some \/ quote.current.val = r.alert_price) =>
                /\ r.peak.some
                /\ r.peak.val = PriorPeak(r.ticker, r.alert_price)

\* The printed rows that carry a live quote.
QuotedRows == {j \in DOMAIN rows : rows[j].current.some}

\* C11: a ticker with no peak from a prior run has its peak seeded with
\* the alert price: with no live data it is reported with peak = alert
\* price (peak move 0), and with a quote its peak is never on the far side
\* of the alert price.
C11_PeakSeededWithAlert ==
    \A j \in DOMAIN rows :
        (\A i \in DOMAIN prev_rows : prev_rows[i].ticker # rows[j].ticker) =>
            /\ rows[j].peak.some
            /\ ~rows[j].current.some => rows[j].peak.val = rows[j].alert_price
            /\ rows[j].current.some =>
                  \/ rows[j].peak.val >= rows[j].alert_price
                  \/ rows[j].current.val < rows[j].alert_price

\* C12: at the end of a run count is the number of reported tickers whose
\* peak differs from the alert price and winners the number whose peak is
\* above it.
C12_CountersFollowPeak ==
    pc = "done" =>
        /\ count = Cardinality({j \in DOMAIN rows :
              rows[j].peak.some /\ rows[j].peak.val # rows[j].alert_price})
        /\ winners = Cardinality({j \in DOMAIN rows :
              rows[j].peak.some /\ rows[j].peak.val > rows[j].alert_price})

\* The sum of the printed moves of the rows whose current price is off
\* the alert price.
RECURSIVE MovedSum(_)
MovedSum(rs) ==
    IF rs = <<>> THEN 0
    ELSE (IF Head(rs).current.some
             /\ Head(rs).current.val # Head(rs).alert_price
          THEN Head(rs).move.val ELSE 0) + MovedSum(Tail(rs))

\* Python's order of the ticker names of the model.
NameBefore(a, b) ==
    <<a, b>> \in {<<"", "AAA">>, <<"", "BBB">>, <<"", "Unknown">>,
                  <<"AAA", "BBB">>, <<"AAA", "Unknown">>,
                  <<"BBB", "Unknown">>}

\* C13: the average printed is sum / count when count > 0, the sum being
\* that of the moves of the counted tickers, and exactly 0 when count = 0;
\* its divisor is never zero.
C13_AverageGuarded ==
    summary # <<>> =>
        /\ summary[1].avg_move.den # 0
        /\ total_move = MovedSum(rows)
        /\ count > 0 =>
              /\ summary[1].avg_move.num = total_move
              /\ summary[1].avg_move.den = count
        /\ count = 0 =>
              /\ summary[1].avg_move.num = 0
              /\ total_move = 0

\* C13 witness: a finished run with no counted ticker: one quote equal to
\* the alert price and one failed fetch.
C13_Witness ==
    /\ pc = "done"
    /\ count = 0
    /\ Cardinality(QuotedRows) = 1
    /\ Len(na_tickers) = 1

\* C14: a ticker is in big_movers exactly when its row carries a live
\* quote whose move from the alert price is at least 10 percent in
\* absolute value, 10 included; a ticker without a quote is never in it.
C14_BigMoverIffQuotedAndTenPercent ==
    /\ \A j \in DOMAIN rows :
          (\E i \in DOMAIN big_movers : big_movers[i].ticker = rows[j].ticker)
          <=> (/\ rows[j].current.some
               /\ Abs(rows[j].current.val - rows[j].alert_price) * 100
                     >= BIG_MOVER_THRESHOLD * Abs(rows[j].alert_price))
    /\ \A i \in DOMAIN big_movers : \E j \in QuotedRows :
          /\ rows[j].ticker = big_movers[i].ticker
          /\ rows[j].move.val = big_movers[i].move_pct
    /\ Len(big_movers) <= Cardinality(QuotedRows)

\* C14 witness: a big mover at exactly 10 percent beside a ticker without
\* a quote.
C14_Witness ==
    /\ Len(big_movers) = 1
    /\ Abs(big_movers[1].move_pct) = BIG_MOVER_THRESHOLD
    /\ Len(na_tickers) = 1
    /\ Len(rows) = 2

\* C15: a call whose payload has its current price missing, null or zero
\* returns no data (current, high and low all absent); the ticker goes to
\* the unavailable list and count, winners, the sum and big_movers stay as
\* they were.
C15_ZeroCurrentIsNoData ==
    [][(fetch_calls' = fetch_calls + 1 /\ answer' = "no_current") =>
          /\ quote' = [current |-> None, high |-> None, low |-> None]
          /\ na_tickers' = Append(na_tickers, tickers[idx + 1])
          /\ ~rows'[Len(rows')].current.some
          /\ rows'[Len(rows')].ticker = tickers[idx + 1]
          /\ count' = count
          /\ winners' = winners
          /\ total_move' = total_move
          /\ big_movers' = big_movers]_vars

\* C15 witness: a finished run whose last call met such a payload, after a
\* ticker that was quoted and counted.
C15_Witness ==
    /\ pc = "done"
    /\ answer = "no_current"
    /\ Len(na_tickers) = 1
    /\ count = 1

\* C16: the tickers are fetched in ascending order, one call for each row
\* printed (one more for the call after which the run was ended by an
\* exception), so no ticker is fetched twice; a ticker whose fetch failed
\* is in the unavailable list once and the loop has gone past it.
C16_OneFetchPerTickerInOrder ==
    /\ \A i \in DOMAIN rows : \A j \in DOMAIN rows :
          i < j => NameBefore(rows[i].ticker, rows[j].ticker)
    /\ fetch_calls = Len(rows) + (IF pc = "crashed" THEN 1 ELSE 0)
    /\ fetch_calls <= idx + (IF pc = "crashed" THEN 1 ELSE 0)
    /\ idx <= Len(tickers)
    /\ Len(na_tickers) = Len(rows) - Cardinality(QuotedRows)
    /\ \A j \in DOMAIN rows :
          ~rows[j].current.some <=>
             (\E i \in DOMAIN na_tickers : na_tickers[i] = rows[j].ticker)

\* C16 witness: a file that lists BBB before AAA; AAA was fetched first
\* and failed, BBB was fetched next and quoted.
C16_Witness ==
    /\ pc = "done"
    /\ Len(csv.rows) = 2
    /\ csv.rows[1].Ticker = "BBB"
    /\ csv.rows[2].Ticker = "AAA"
    /\ fetch_calls = 2
    /\ na_tickers = <<"AAA">>
    /\ rows[2].ticker = "BBB"
    /\ rows[2].current.some

\* C17: after a completed run the peaks on disk hold an entry for every
\* ticker the run processed.
C17_StoreCoversRun ==
    pc = "done" =>
        \A j \in DOMAIN rows : \E e \in peak_store : e.ticker = rows[j].ticker

\* C18: at every point winners <= count <= number of tickers quoted so
\* far, and a loop iteration adds at most one to count.
C18_CountBounds ==
    /\ [](/\ winners <= count
          /\ count <= fetch_calls - fetch_failures
          /\ pc # "crashed" => count <= Cardinality(QuotedRows))
    /\ [][/\ count' \in {count, count + 1}
          /\ count' = count + 1 =>
                (idx' = idx + 1 /\ Len(rows') = Len(rows) + 1)]_vars

\* C18 witness: two tickers quoted, one above its alert price and one at
\* its alert price: one winner, one counted.
C18_Witness ==
    /\ pc = "done"
    /\ winners = 1
    /\ count = 1
    /\ Cardinality(QuotedRows) = 2

\* C19: every ticker that was fetched is either quoted (a row with current
\* price and peak) or unavailable, never both; the big movers are among
\* the quoted tickers; quoted plus unavailable tickers are as many as the
\* calls of fetch_stock_price.
C19_QuotedOrUnavailable ==
    /\ Cardinality(QuotedRows) + Len(na_tickers) = fetch_calls
    /\ \A j \in QuotedRows :
          /\ rows[j].peak.some
          /\ \A i \in DOMAIN na_tickers : na_tickers[i] # rows[j].ticker
    /\ \A i \in DOMAIN big_movers :
          /\ \E j \in QuotedRows : rows[j].ticker = big_movers[i].ticker
          /\ \A k \in DOMAIN na_tickers : na_tickers[k] # big_movers[i].ticker

\* C20: the peak is never on the other side of the alert price from
\* current: current above the alert price gives peak >= alert price and a
\* peak move >= 0, current below gives peak <= alert price and a peak
\* move <= 0.
C20_PeakOnCurrentSide ==
    /\ \A j \in QuotedRows :
          /\ rows[j].current.val > rows[j].alert_price =>
                rows[j].peak.val >= rows[j].alert_price
          /\ rows[j].current.val < rows[j].alert_price =>
                rows[j].peak.val <= rows[j].alert_price
    /\ \A i \in DOMAIN big_movers :
          /\ big_movers[i].current_price > big_movers[i].alert_price =>
                big_movers[i].peak_move_pct >= 0
          /\ big_movers[i].current_price < big_movers[i].alert_price =>
                big_movers[i].peak_move_pct <= 0

====
